---- MODULE Spec2Model ----
(***************************************************************************)
(* Model of the ServiceBus of src/soa.js: the subscription registry        *)
(* (_subscribers), the delivery log (_log), the async publish loop with    *)
(* its two suspension points (await delay(400), await handler(payload)),   *)
(* and the log display fed by notifyBusLog.                                *)
(*                                                                         *)
(* Every call of an async function is an activation record ("frame") in    *)
(* the sequence frames; frames are never removed, so a settled frame keeps *)
(* its outcome.  JavaScript runs one job to completion: a continuation     *)
(* that is ready (a microtask) runs before any timer or external call, so  *)
(* the external actions are guarded by Quiescent.                          *)
(***************************************************************************)
EXTENDS Integers, Sequences, FiniteSets, TLC

\* ---- bounds of the exploration ----
MaxSubs  == 3      \* subscribe calls that register a handler
MaxCalls == 3      \* publish calls, nested ones included

\* ---- program constants ----
DisplayCap == 20   \* "cap log at 20 items"
DelayMs == 400     \* await delay(400)
SettleMs == 1200   \* await delay(items.length * 400 + 1200)

MaxOrders == 2     \* clicks on the order button
MaxActive == 3     \* decorators active at once in the customizer

\* ---- topics and payloads ----
\* "constructor" stands for the strings that name a property a plain object
\* literal inherits from Object.prototype.
InheritedKeys == {"constructor"}
Topics == {"order.placed", "inventory.updated"} \cup InheritedKeys

\* the payloads published from outside: an object with a service field, as
\* the services build it, and null / undefined
Payloads == {"withService", "nullish"}

\* the callers outside the bus, in the order in which they call; each issues
\* one publish and does not wait for the other
Callers == <<"first", "second">>
NoCaller == "none"

NoTopic == "none"
NoHandler == "none"
NoError == "none"

\* ---- handlers ----
\* A handler is the function value handed to subscribe.  Its behaviour is
\*   pub     the topic it publishes (and awaits) on the same bus, or NoTopic
\*   catches whether the await of that publish sits in a try/catch
\*   throws  whether it throws after its own effect instead of publishing
\*   hangs   whether the promise it returns never settles
HandlerDefs ==
  [ Ok     |-> [pub |-> NoTopic,             catches |-> FALSE, throws |-> FALSE,
                hangs |-> FALSE],
    Fail   |-> [pub |-> NoTopic,             catches |-> FALSE, throws |-> TRUE,
                hangs |-> FALSE],
    Inv    |-> [pub |-> "inventory.updated", catches |-> FALSE, throws |-> FALSE,
                hangs |-> FALSE],
    Guard  |-> [pub |-> "inventory.updated", catches |-> TRUE,  throws |-> FALSE,
                hangs |-> FALSE],
    Hang   |-> [pub |-> NoTopic,             catches |-> FALSE, throws |-> FALSE,
                hangs |-> TRUE],
    Loyalty    |-> [pub |-> "loyalty.updated",   catches |-> FALSE,
                    throws |-> FALSE, hangs |-> FALSE],
    NotifEmail |-> [pub |-> "notification.sent", catches |-> FALSE,
                    throws |-> FALSE, hangs |-> FALSE],
    NotifPush  |-> [pub |-> "notification.sent", catches |-> FALSE,
                    throws |-> FALSE, hangs |-> FALSE],
    Back   |-> [pub |-> "order.placed",      catches |-> FALSE, throws |-> FALSE,
                hangs |-> FALSE] ]

Handlers == DOMAIN HandlerDefs

\* the subscribe calls explored: like the services of soa.js, a handler that
\* publishes a topic is subscribed to the topic upstream of it
Wiring ==
  ({"order.placed"} \X {"Ok", "Fail", "Inv", "Guard"})
    \cup ({"inventory.updated"} \X {"Ok", "Fail"})
    \cup (InheritedKeys \X {"Ok"})

\* the subscribe calls explored when a handler may never settle
WiringStall ==
  ({"order.placed"} \X {"Ok", "Inv", "Hang"})
    \cup ({"inventory.updated"} \X {"Ok", "Hang"})

\* the payload a publishing handler builds: an object literal with service
NestedPayload == "withService"

VARIABLES
  subscribers,   \* this._subscribers: topic -> sequence of handlers (own keys)
  log,           \* this._log
  display,       \* children of #soa-bus-log, first child first
  logElPresent,  \* document.getElementById('soa-bus-log') is not null
  frames,        \* activations of publish and of handlers, in call order
  timers,        \* pending setTimeout callbacks of delay(400), in setTimeout order
  effects,       \* the side effects handlers performed, in order
  clock,         \* Date.now(), in ms since the bus was constructed
  calls,         \* number of publish calls made so far
  returned,      \* how the subscribe call that has just been made completed
  callCap        \* publish calls the exploration follows; the code has no limit

\* the state of the shared bus instance and of its display
busVars == <<subscribers, log, display, logElPresent, frames, timers, effects,
             clock, calls, returned>>

\* ---- the rest of the page ----
VARIABLES
  logRef,            \* what an observer's variable holds after getLog()
  btnDisabled,       \* #soa-order-btn .disabled
  demo,              \* the activation of placeDemoOrder
  busSubscribers,    \* _subscribers of each of several ServiceBus instances
  busLog,            \* _log of each of them
  busRounds,         \* their publish calls in flight
  busTrace,          \* the calls made on them and the handler calls they made
  selectedBase,      \* customizer: key of the base coffee
  activeDecorators,  \* customizer: the Set of active keys, in insertion order
  baseCoffees,       \* BASE_COFFEES: key -> _price
  lastToggle         \* the last call of toggleDecorator, if it was the last call

viewVars == <<logRef>>
demoVars == <<btnDisabled, demo>>
fleetVars == <<busSubscribers, busLog, busRounds, busTrace>>
coffeeVars == <<selectedBase, activeDecorators, baseCoffees, lastToggle>>

\* what a step of the shared bus leaves alone
notBus == <<callCap, viewVars, demoVars, fleetVars, coffeeVars>>

vars == <<busVars, notBus>>

\* no subscribe call has just been made
NoReturn == [n |-> 0, topic |-> NoTopic, h |-> NoHandler, value |-> "none"]

Settled == {"resolved", "rejected"}

FrameIds == 1..Len(frames)
PublishIds == {f \in FrameIds : frames[f].kind = "publish"}
HandlerIds == {f \in FrameIds : frames[f].kind = "handler"}

\* ---- notifyBusLog ----
\* entry.payload.service on a null / undefined payload is a TypeError
NotifyThrows(payload) == logElPresent /\ payload = "nullish"

\* payload.service || (a dash)
ServiceOf(payload) == IF payload = "withService" THEN "service" ELSE "dash"

\* logEl.prepend(item); while (children.length > 20) removeChild(lastChild)
Prepend(d, item) ==
  LET all == <<item>> \o d
  IN IF Len(all) > DisplayCap THEN SubSeq(all, 1, DisplayCap) ELSE all

NotifyBusLog(entry) ==
  IF ~logElPresent \/ NotifyThrows(entry.payload)
  THEN display
  ELSE Prepend(display, [event |-> entry.event,
                         svc |-> ServiceOf(entry.payload),
                         time |-> entry.timestamp])

\* ---- handler lookup ----
\* this._subscribers[event] || []  : an own key holds the live array; an
\* inherited key yields a function or object that for...of cannot iterate
LookupThrows(topic) == topic \in InheritedKeys

HandlersOf(topic) == IF topic \in InheritedKeys THEN <<>> ELSE subscribers[topic]

\* mutant: a guard against re-entrant dispatch: a publish of a topic that a
\* publish still in progress is dispatching gets no handlers
IsLive_reentryGuard(topic) ==
  /\ ~LookupThrows(topic) /\ Len(subscribers[topic]) > 0
  /\ \A q \in 1..Len(frames) :
       (frames[q].kind = "publish" /\ frames[q].topic = topic)
         => frames[q].pc \in {"resolved", "rejected"}

\* the array the loop iterates is this._subscribers[event] itself when the
\* key exists, and a fresh empty array otherwise
IsLive(topic) == ~LookupThrows(topic) /\ Len(subscribers[topic]) > 0

\* ---- ServiceBus.publish, the synchronous part of a call ----
\* const entry = { event, payload, timestamp: Date.now() }
Entry(topic, payload) ==
  [event |-> topic, payload |-> payload, timestamp |-> clock]

\* mutant: the entry is pushed only after the loop, so a call that has
\* handlers to dispatch to returns from its synchronous part without it
PushLog_afterDispatch(l, entry) ==
  IF IsLive(entry.event) THEN l ELSE Append(l, entry)

\* mutant: unshift instead of push
PushLog_unshift(l, entry) == <<entry>> \o l

\* mutant: the log is reassigned instead of extended
PushLog_reassign(l, entry) == <<entry>>

\* this._log.push(entry)
PushLog(l, entry) == Append(l, entry)

\* the state in which the call leaves its promise: rejected when
\* notifyBusLog or the for...of over the looked-up value throws, resolved
\* when the loop has nothing to iterate, otherwise suspended in the first
\* await delay(400)
CallOutcome(topic, payload) ==
  IF NotifyThrows(payload) \/ LookupThrows(topic) THEN "rejected"
  ELSE IF IsLive(topic) THEN "delay"
  ELSE "resolved"

\* the error the synchronous part throws, if any; notifyBusLog runs first
CallError(topic, payload) ==
  IF NotifyThrows(payload) THEN "TypeError: payload is nullish"
  ELSE IF LookupThrows(topic) THEN "TypeError: handlers is not iterable"
  ELSE NoError

PublishFrame(caller, parent, topic, payload) ==
  [kind |-> "publish", caller |-> caller, parent |-> parent,
   topic |-> topic,
   payload |-> payload, logIdx |-> Len(log) + 1,
   idx |-> IF CallOutcome(topic, payload) = "delay" THEN 1 ELSE 0,
   live |-> IsLive(topic), h |-> NoHandler, child |-> 0,
   seenLog |-> Len(log), reason |-> CallError(topic, payload),
   atCall |-> Len(HandlersOf(topic)),
   pc |-> CallOutcome(topic, payload)]

\* mutant: the pause has no length
Timer_immediate(p) == [frame |-> p, due |-> clock]

\* delay(ms): setTimeout(r, ms); timers of equal delay run in the order set
Timer(p) == [frame |-> p, due |-> clock + DelayMs]

\* the call made by the handler frame parent, or by an outside caller when
\* parent is 0, in a state whose frames are fr
PublishCall(caller, parent, topic, payload, fr) ==
  /\ calls < callCap
  /\ calls' = calls + 1
  /\ log' = PushLog(log, Entry(topic, payload))
  /\ display' = NotifyBusLog(Entry(topic, payload))
  /\ frames' = Append(fr, PublishFrame(caller, parent, topic, payload))
  /\ timers' = IF CallOutcome(topic, payload) = "delay"
               THEN Append(timers, Timer(Len(fr) + 1)) ELSE timers

\* ---- the call tree ----
RECURSIVE Ancestors(_)
Ancestors(f) ==
  IF frames[f].parent = 0 THEN {}
  ELSE {frames[f].parent} \cup Ancestors(frames[f].parent)

\* a frame and everything called, directly or not, from it
Cascade(f) == {g \in FrameIds : g = f \/ f \in Ancestors(g)}

\* ---- awaiting ----
\* mutant: handler(payload) is called without await
HandlerSettled_noAwait(f) == TRUE

\* await handler(payload) resumes only when the handler's promise settled
HandlerSettled(f) == frames[f].pc \in Settled

\* mutant: the handler calls bus.publish without await
PublishSettled_noAwait(p) == TRUE

\* await bus.publish(...) inside a handler
PublishSettled(p) == frames[p].pc \in Settled

\* mutant: the loop catches the error of a handler and goes on
RoundAborts_never(f) == FALSE

\* mutant: a failure anywhere below the handler ends the loop, caught or not
RoundAborts_anyFailureBelow(f) ==
  \E d \in Cascade(f) : frames[d].pc = "rejected"

\* a rejected handler promise makes the await throw, which ends the loop
RoundAborts(f) == frames[f].pc = "rejected"

\* mutant: the loop returns after its first handler
HasNext_returnsAfterFirst(p) == FALSE

\* for (const handler of handlers): the iterator compares its index with the
\* current length of the array it iterates
HasNext(p) ==
  frames[p].live /\ frames[p].idx < Len(HandlersOf(frames[p].topic))

\* mutant: the loop does not advance
NextIdx_stuck(i) == i

\* the iterator's step to the following element
NextIdx(i) == i + 1

\* a continuation is ready to run
Runnable(f) ==
  \/ frames[f].kind = "handler" /\ frames[f].pc = "run"
  \/ frames[f].kind = "handler" /\ frames[f].pc = "await"
       /\ PublishSettled(frames[f].child)
  \/ frames[f].kind = "publish" /\ frames[f].pc = "await"
       /\ HandlerSettled(frames[f].child)

Quiescent == \A f \in FrameIds : ~Runnable(f)

TopLevel == {p \in PublishIds : frames[p].parent = 0}

\* ---- initial state of the rest of the page ----
\* no observer has called getLog
ViewInit == logRef = "none"

\* placeDemoOrder is not running and the order button is enabled
DemoIdle == [pc |-> "idle", items |-> 0, orders |-> 0, due |-> 0, call |-> 0]

DemoInit == btnDisabled = FALSE /\ demo = DemoIdle

\* the ServiceBus instances constructed next to the shared one
Buses == {"busA", "busB"}
FleetTopics == {"order.placed"}
FleetHandlers == {"Ok", "Fail"}

FleetInit ==
  /\ busSubscribers = [b \in Buses |-> [t \in FleetTopics |-> <<>>]]
  /\ busLog = [b \in Buses |-> <<>>]
  /\ busRounds = <<>>
  /\ busTrace = <<>>

\* BASE_COFFEES: the _price of each base coffee, in cents; each of these
\* prices is a multiple of 0.25 and so an exact double
BASE_COFFEES ==
  [ doubleShot      |-> 350,
    flatWhite       |-> 500,
    brownSugarLatte |-> 575,
    pourOver        |-> 425,
    coldBrew        |-> 550,
    matchaLatte     |-> 475 ]

\* no call of toggleDecorator has just been made
NoKey == "none"
NoToggle == [key |-> NoKey, before |-> <<>>, twice |-> FALSE, start |-> <<>>]

CoffeeInit ==
  /\ selectedBase = "flatWhite"
  /\ activeDecorators = <<>>
  /\ baseCoffees = BASE_COFFEES
  /\ lastToggle = NoToggle

\* ---- initial state: a freshly constructed bus ----
Init ==
  /\ subscribers = [t \in Topics \ InheritedKeys |-> <<>>]
  /\ log = <<>>
  /\ display = <<>>
  /\ logElPresent \in BOOLEAN
  /\ frames = <<>>
  /\ timers = <<>>
  /\ effects = <<>>
  /\ clock = 0
  /\ calls = 0
  /\ returned = NoReturn
  /\ callCap = MaxCalls
  /\ ViewInit /\ DemoInit /\ FleetInit /\ CoffeeInit

\* ---- ServiceBus.subscribe ----
\* the services subscribe in their constructors, before anything is published
\* on an inherited key the stored value is truthy and has no push: TypeError
SubscribeThrows(topic) == topic \in InheritedKeys

Registered == Len(subscribers["order.placed"]) + Len(subscribers["inventory.updated"])

\* mutant: subscribe returns a handle for the registration
SubscribeReturns_handle(topic) ==
  IF SubscribeThrows(topic) THEN "TypeError" ELSE "handle"

\* the method has no return statement: a call that does not throw evaluates
\* to undefined
SubscribeReturns(topic) ==
  IF SubscribeThrows(topic) THEN "TypeError" ELSE "undefined"

\* this._subscribers[event].push(handler)
Pushed(list, h) == Append(list, h)

Subscribe(topic, h) ==
  /\ Quiescent
  /\ Registered < MaxSubs
  /\ returned.n < MaxSubs
  /\ calls = 0
  /\ subscribers' = IF SubscribeThrows(topic) THEN subscribers
                    ELSE [subscribers EXCEPT ![topic] = Pushed(@, h)]
  /\ returned' = [n |-> returned.n + 1, topic |-> topic, h |-> h,
                  value |-> SubscribeReturns(topic)]
  /\ UNCHANGED <<log, display, logElPresent, frames, timers, effects, clock,
                 calls, notBus>>

\* ---- ServiceBus.publish called from outside any handler ----
Publish(topic, payload) ==
  /\ Quiescent
  /\ Cardinality(TopLevel) < Len(Callers)
  /\ PublishCall(Callers[Cardinality(TopLevel) + 1], 0, topic, payload, frames)
  /\ returned' = NoReturn
  /\ UNCHANGED <<subscribers, logElPresent, effects, clock, notBus>>

\* ---- the timer of await delay(400) fires: handler(payload) is called ----
\* mutant: the handlers are taken from the end of the list
HandlerFrame_reversed(p) ==
  [kind |-> "handler", caller |-> NoCaller, parent |-> p, topic |-> frames[p].topic,
   payload |-> frames[p].payload, logIdx |-> frames[p].logIdx,
   idx |-> frames[p].idx, live |-> FALSE,
   h |-> HandlersOf(frames[p].topic)[Len(HandlersOf(frames[p].topic)) + 1
                                       - frames[p].idx],
   child |-> 0, seenLog |-> Len(log), reason |-> NoError, pc |-> "run"]

HandlerFrame(p) ==
  [kind |-> "handler", caller |-> NoCaller, parent |-> p, topic |-> frames[p].topic,
   payload |-> frames[p].payload, logIdx |-> frames[p].logIdx,
   idx |-> frames[p].idx, live |-> FALSE,
   h |-> HandlersOf(frames[p].topic)[frames[p].idx], child |-> 0,
   seenLog |-> Len(log), reason |-> NoError, pc |-> "run"]

TimerFires ==
  /\ Quiescent
  /\ timers # <<>>
  /\ clock' = Head(timers).due
  /\ LET p == Head(timers).frame IN
       /\ frames' = Append([frames EXCEPT ![p].pc = "await",
                                          ![p].child = Len(frames) + 1],
                           HandlerFrame(p))
       /\ timers' = Tail(timers)
  /\ UNCHANGED <<subscribers, log, display, logElPresent, effects, calls,
                 returned, notBus>>

\* ---- the body of a handler up to its first await ----
\* the error a throwing handler throws
ThrownBy(f) == "Error thrown by handler"

\* what the handler does to the state of its service before it publishes
\* (this._stock, this._accounts, this._sent.push)
Effect(f) == [h |-> frames[f].h, payload |-> frames[f].payload]

HandlerRuns(f) ==
  /\ frames[f].kind = "handler" /\ frames[f].pc = "run"
  /\ effects' = Append(effects, Effect(f))
  /\ LET def == HandlerDefs[frames[f].h] IN
       IF def.throws
       THEN /\ frames' = [frames EXCEPT ![f].pc = "rejected",
                                        ![f].reason = ThrownBy(f)]
            /\ UNCHANGED <<log, display, timers, calls>>
       ELSE IF def.hangs
       THEN /\ frames' = [frames EXCEPT ![f].pc = "pending"]
            /\ UNCHANGED <<log, display, timers, calls>>
       ELSE IF def.pub = NoTopic
       THEN /\ frames' = [frames EXCEPT ![f].pc = "resolved"]
            /\ UNCHANGED <<log, display, timers, calls>>
       ELSE PublishCall(NoCaller, f, def.pub, NestedPayload,
                        [frames EXCEPT ![f].pc = "await",
                                       ![f].child = Len(frames) + 1])
  /\ UNCHANGED <<subscribers, logElPresent, clock, returned, notBus>>

\* ---- a handler resumes after await bus.publish(...) ----
\* mutant: the catch block rethrows
Propagates_rethrown(f) == frames[frames[f].child].pc = "rejected"

\* the await throws the rejection of the nested publish; it leaves the
\* handler unless the await sits in a try/catch
Propagates(f) ==
  /\ frames[frames[f].child].pc = "rejected"
  /\ ~HandlerDefs[frames[f].h].catches

HandlerResumes(f) ==
  /\ frames[f].kind = "handler" /\ frames[f].pc = "await"
  /\ PublishSettled(frames[f].child)
  /\ frames' = IF Propagates(f)
               THEN [frames EXCEPT ![f].pc = "rejected",
                                   ![f].reason = frames[frames[f].child].reason]
               ELSE [frames EXCEPT ![f].pc = "resolved"]
  /\ UNCHANGED <<subscribers, log, display, logElPresent, timers, effects,
                 clock, calls, returned, notBus>>

\* ---- publish resumes after await handler(payload) ----
PublishResumes(p) ==
  /\ frames[p].kind = "publish" /\ frames[p].pc = "await"
  /\ HandlerSettled(frames[p].child)
  /\ IF RoundAborts(frames[p].child)
     THEN /\ frames' = [frames EXCEPT ![p].pc = "rejected",
                                      ![p].reason = frames[frames[p].child].reason]
          /\ timers' = timers
     ELSE IF HasNext(p)
     THEN /\ frames' = [frames EXCEPT ![p].pc = "delay",
                                      ![p].idx = NextIdx(frames[p].idx)]
          /\ timers' = Append(timers, Timer(p))
     ELSE /\ frames' = [frames EXCEPT ![p].pc = "resolved"]
          /\ timers' = timers
  /\ UNCHANGED <<subscribers, log, display, logElPresent, effects, clock,
                 calls, returned, notBus>>

Next ==
  \/ \E w \in Wiring : Subscribe(w[1], w[2])
  \/ \E t \in Topics, pl \in Payloads : Publish(t, pl)
  \/ TimerFires
  \/ \E f \in FrameIds : HandlerRuns(f)
  \/ \E f \in FrameIds : HandlerResumes(f)
  \/ \E p \in FrameIds : PublishResumes(p)

Spec == Init /\ [][Next]_vars

\* the same bus with handlers among its subscribers that never settle
NextStall ==
  \/ \E w \in WiringStall : Subscribe(w[1], w[2])
  \/ \E t \in Topics, pl \in Payloads : Publish(t, pl)
  \/ TimerFires
  \/ \E f \in FrameIds : HandlerRuns(f)
  \/ \E f \in FrameIds : HandlerResumes(f)
  \/ \E p \in FrameIds : PublishResumes(p)

SpecStall == Init /\ [][NextStall]_vars

\* the handler invocations of the dispatch round of publish frame p
Round(p) == {f \in HandlerIds : frames[f].parent = p}

\* the entry a publish frame appended
EntryOfFrame(p) == log[frames[p].logIdx]

\* C1: depth-first cascade.  When a handler invoked for publish(A) publishes
\* B and awaits it, B's entry follows A's entry in the log, and by the time
\* publish(A) invokes its next handler every frame of the cascade of the
\* earlier handler has settled and every entry of that cascade is in the log,
\* ahead of anything the later sibling sees or appends.
C1_DepthFirstCascade ==
  /\ \A q \in PublishIds :
       frames[q].parent # 0 =>
         /\ frames[q].logIdx <= Len(log)
         /\ frames[frames[q].parent].logIdx < frames[q].logIdx
  /\ \A f \in HandlerIds : \A g \in Round(frames[f].parent) :
       frames[f].idx < frames[g].idx =>
         \A d \in Cascade(f) :
           /\ frames[d].pc \in Settled
           /\ d < g
           /\ frames[d].logIdx <= frames[g].seenLog

\* a nested cascade has run to its end under a first handler and the round
\* of the outer publish has gone on to the handler registered after it
C1_Witness ==
  \E f \in HandlerIds, g \in HandlerIds :
    /\ frames[f].parent = frames[g].parent
    /\ frames[f].idx < frames[g].idx
    /\ \E q \in PublishIds :
         /\ frames[q].parent = f
         /\ Round(q) # {}
         /\ frames[q].logIdx = frames[frames[f].parent].logIdx + 1

\* C2: registration-order dispatch.  The k-th handler invocation of a round
\* runs the k-th handler subscribed to the topic with the payload handed to
\* publish; the invocations of a round are made in increasing k, one per k,
\* and invocation k+1 is not made before invocation k and the cascade it
\* started have settled.
C2_RegistrationOrder ==
  \A p \in PublishIds : \A g \in Round(p) :
    /\ frames[g].idx \in 1..Len(HandlersOf(frames[p].topic))
    /\ frames[g].h = HandlersOf(frames[p].topic)[frames[g].idx]
    /\ frames[g].payload = frames[p].payload
    /\ \A k \in 1..(frames[g].idx - 1) :
         \E f \in Round(p) :
           /\ frames[f].idx = k
           /\ f < g
           /\ \A d \in Cascade(f) : frames[d].pc \in Settled

\* two different handlers subscribed to one topic have both been invoked by
\* one publish
C2_Witness ==
  \E p \in PublishIds : \E f \in Round(p), g \in Round(p) :
    /\ frames[f].idx = 1 /\ frames[g].idx = 2
    /\ frames[f].h # frames[g].h
    /\ frames[g].pc \in Settled

\* C3: log before dispatch.  Every publish call has appended its entry when
\* the call returns, and a handler invoked for a publish finds the entry of
\* that publish, with its topic and payload, already in the log.
C3_LogBeforeDispatch ==
  /\ \A p \in PublishIds :
       /\ frames[p].logIdx <= Len(log)
       /\ EntryOfFrame(p).event = frames[p].topic
       /\ EntryOfFrame(p).payload = frames[p].payload
  /\ \A f \in HandlerIds :
       /\ frames[f].logIdx <= frames[f].seenLog
       /\ frames[f].seenLog <= Len(log)
       /\ EntryOfFrame(f).event = frames[f].topic
       /\ EntryOfFrame(f).payload = frames[f].payload

\* a handler is running for an envelope
C3_Witness ==
  \E f \in HandlerIds : frames[f].pc = "run" /\ frames[f].logIdx = Len(log)

PublishOrdinal(p) == Cardinality({q \in PublishIds : q <= p})

C5_FailureShortCircuit ==
  \A p \in PublishIds : \A f \in Round(p) :
    frames[f].pc = "rejected" =>
      /\ \A g \in Round(p) : frames[g].idx <= frames[f].idx
      /\ \/ frames[p].pc = "await" /\ frames[p].child = f
         \/ /\ frames[p].pc = "rejected"
            /\ frames[p].reason = frames[f].reason
            /\ frames[p].reason # NoError

\* H1 has failed, H2 is registered after it, and the publish has rejected
C5_Witness ==
  \E p \in PublishIds : \E f \in Round(p) :
    /\ frames[f].pc = "rejected"
    /\ frames[f].idx < Len(HandlersOf(frames[p].topic))
    /\ frames[p].pc = "rejected"
    /\ Quiescent

\* C6 as stated, in the case it singles out: a failure of a handler anywhere
\* in the cascade of an outermost publish makes that publish fail, also when
\* the handler in between catches the rejection of the nested publish.
C6_NestedFailureFailsOutermost ==
  \A p \in TopLevel :
    frames[p].pc \in Settled =>
      ((\E f \in Cascade(p) \cap HandlerIds : frames[f].pc = "rejected")
         => frames[p].pc = "rejected")

\* the synchronous part of the call of frame p threw
CallThrew(p) ==
  \/ logElPresent /\ frames[p].payload = "nullish"
  \/ frames[p].topic \in InheritedKeys

\* C6, amended: a settled publish has failed exactly when a handler of its
\* own round has failed or its own synchronous part threw; a handler has
\* failed exactly when it threw or the publish it awaited failed and it does
\* not catch; a publish that succeeded has its whole cascade settled.
C6_FailsIffOwnRoundFails ==
  /\ \A p \in PublishIds :
       frames[p].pc \in Settled =>
         /\ frames[p].pc = "rejected"
              <=> \/ \E f \in Round(p) : frames[f].pc = "rejected"
                  \/ CallThrew(p)
         /\ frames[p].pc = "resolved" =>
              \A d \in Cascade(p) : frames[d].pc \in Settled
  /\ \A f \in HandlerIds :
       frames[f].pc \in Settled =>
         (frames[f].pc = "rejected"
            <=> \/ HandlerDefs[frames[f].h].throws
                \/ /\ frames[f].child # 0
                   /\ frames[frames[f].child].pc = "rejected"
                   /\ ~HandlerDefs[frames[f].h].catches)

\* an outer publish has succeeded although a handler of a nested round
\* failed: the handler in between caught the rejection
C6_Witness ==
  \E p \in TopLevel :
    /\ frames[p].pc = "resolved"
    /\ \E f \in Cascade(p) \cap HandlerIds : frames[f].pc = "rejected"

\* the publish frames suspended in delay
Delayed == {timers[i].frame : i \in 1..Len(timers)}

\* C7: completion covers the whole cascade.  When a publish call has
\* settled, every handler invocation and every nested publish of its cascade
\* has settled, every entry of the cascade is in the log, and no timer of
\* the cascade is pending.
C7_CompletionCoversCascade ==
  \A p \in PublishIds :
    frames[p].pc \in Settled =>
      \A d \in Cascade(p) :
        /\ frames[d].pc \in Settled
        /\ frames[d].logIdx <= Len(log)
        /\ d \notin Delayed

\* an outside publish has resolved after a nested publish with a handler of
\* its own
C7_Witness ==
  \E p \in TopLevel :
    /\ frames[p].pc = "resolved"
    /\ \E q \in Cascade(p) \cap PublishIds : q # p /\ Round(q) # {}

\* C8 as stated: a publish to a topic that has no subscriber when it is
\* called appends one entry, invokes no handler and settles successfully.
C8_NoSubscriberNoOp ==
  \A p \in PublishIds :
    ~frames[p].live =>
      /\ frames[p].logIdx = frames[p].seenLog + 1
      /\ frames[p].logIdx <= Len(log)
      /\ Round(p) = {}
      /\ frames[p].pc = "resolved"

\* C9: append-only log.  Every step of the bus leaves the previous log as a
\* prefix of the log; a step that makes a publish call adds exactly one
\* entry, and every other step (subscribe, a timer, a handler running,
\* failing or resuming, a publish resuming) leaves the log as it is.
C9_AppendOnlyLog ==
  [][ /\ Len(log') >= Len(log)
      /\ SubSeq(log', 1, Len(log)) = log
      /\ Len(log') - Len(log) = Cardinality(PublishIds') - Cardinality(PublishIds)
      /\ Len(log') - Len(log) \in {0, 1} ]_vars

\* the log holds several entries and a handler has failed
C9_Witness ==
  /\ Len(log) >= 2
  /\ \E f \in HandlerIds : frames[f].pc = "rejected"
  /\ \E p \in PublishIds : frames[p].parent # 0

\* the effects of the handler invocations among the first n frames that have
\* run their body, in call order
RECURSIVE EffectsUpTo(_)
EffectsUpTo(n) ==
  IF n = 0 THEN <<>>
  ELSE IF frames[n].kind = "handler" /\ frames[n].pc # "run"
       THEN Append(EffectsUpTo(n - 1), Effect(n))
       ELSE EffectsUpTo(n - 1)

\* C10: no rollback and no retry.  After a failure the entry of the failed
\* publish and all other entries are still in the log, the effect of every
\* handler invocation made so far is still in place, and no handler of a
\* round is invoked a second time for that publish.
C10_NoRollbackNoRetry ==
  /\ \A p \in PublishIds :
       frames[p].pc = "rejected" =>
         /\ frames[p].logIdx <= Len(log)
         /\ EntryOfFrame(p).event = frames[p].topic
         /\ EntryOfFrame(p).payload = frames[p].payload
  /\ Len(log) = Cardinality(PublishIds)
  /\ effects = EffectsUpTo(Len(frames))
  /\ \A p \in PublishIds :
       /\ \A f \in Round(p), g \in Round(p) :
            f # g => frames[f].idx # frames[g].idx
       /\ Cardinality(Round(p)) <= Len(HandlersOf(frames[p].topic))

\* a round has failed at its second handler after its first had settled
C10_Witness ==
  \E p \in PublishIds : \E f \in Round(p), g \in Round(p) :
    /\ frames[p].pc = "rejected"
    /\ frames[f].pc = "resolved" /\ frames[f].idx = 1
    /\ frames[g].pc = "rejected" /\ frames[g].idx = 2
    /\ Len(effects) >= 2

\* C11: failure scope.  A handler that catches the rejection of the publish
\* it awaited settles successfully; a round whose handler settled
\* successfully goes on to the handler registered next, or resolves after
\* the last one; and a publish rejects only for a failure of a handler of
\* its own round or of its own synchronous part, so a failure in a nested
\* round that was caught leaves the outer round and the outer publish alone.
C11_FailureScope ==
  /\ \A g \in HandlerIds :
       (frames[g].pc \in Settled /\ HandlerDefs[frames[g].h].catches)
         => frames[g].pc = "resolved"
  /\ \A q \in PublishIds : \A g \in Round(q) :
       frames[g].pc = "resolved" =>
         \/ frames[q].pc = "await" /\ frames[q].child = g
         \/ frames[q].idx > frames[g].idx
         \/ /\ frames[g].idx = Len(HandlersOf(frames[q].topic))
            /\ frames[q].pc = "resolved"
  /\ \A q \in PublishIds :
       frames[q].pc = "rejected" =>
         \/ frames[q].reason = CallError(frames[q].topic, frames[q].payload)
         \/ \E f \in Round(q) :
              /\ frames[f].pc = "rejected"
              /\ frames[f].idx = frames[q].idx
              /\ frames[q].reason = frames[f].reason

\* a nested round failed, the handler that published it caught the
\* rejection, the outer round went on to its next handler and the outer
\* publish succeeded
C11_Witness ==
  \E q \in TopLevel : \E g \in Round(q), n \in Round(q) :
    /\ frames[q].pc = "resolved"
    /\ frames[g].idx < frames[n].idx
    /\ frames[g].child # 0
    /\ frames[frames[g].child].pc = "rejected"
    /\ frames[n].pc = "resolved"

\* the number of positions of a sequence that hold x
Occurrences(list, x) == Cardinality({i \in 1..Len(list) : list[i] = x})

\* every handler has been invoked by a resolved publish once per registration
InvokedPerRegistration ==
  \A p \in PublishIds : \A h \in Handlers :
    frames[p].pc = "resolved" =>
      Cardinality({f \in Round(p) : frames[f].h = h})
        = Occurrences(HandlersOf(frames[p].topic), h)

\* C12 as stated: every subscribe call leaves the handler at the end of the
\* list of its topic, a list that exists afterwards, and leaves the lists of
\* the other topics as they were; a handler is invoked once per registration
\* by every publish that resolves.
C12_SubscribeAppends ==
  [][ /\ returned'.n = returned.n + 1 =>
           /\ returned'.topic \in DOMAIN subscribers'
           /\ subscribers'[returned'.topic]
                = Append(HandlersOf(returned'.topic), returned'.h)
           /\ \A u \in DOMAIN subscribers :
                u # returned'.topic => subscribers'[u] = subscribers[u]
      /\ InvokedPerRegistration' ]_vars

\* list a is an initial segment of list b
IsPrefix(a, b) == Len(a) <= Len(b) /\ \A i \in 1..Len(a) : a[i] = b[i]

\* C13 as stated: a subscribe call that completes returns a subscription
\* handle.
C13_ReturnsHandle ==
  (returned.n > 0 /\ returned.value # "TypeError") => returned.value = "handle"

\* C13 amended: a subscribe call that completes returns undefined, and no
\* step of the bus removes a registration: every handler list only grows at
\* its end.
C13_NoHandleNoRemoval ==
  [][ /\ \A t \in DOMAIN subscribers : IsPrefix(subscribers[t], subscribers'[t])
      /\ (returned'.n > 0 /\ returned'.value # "TypeError")
            => returned'.value = "undefined" ]_vars

\* two subscribe calls completed and both registrations are in the list
C13_Witness ==
  /\ returned.n = 2
  /\ returned.value = "undefined"
  /\ Len(HandlersOf(returned.topic)) = 2

\* C14 as stated: a topic is an opaque string.  The handler lookup of a
\* publish never raises an error, whatever the topic, and a subscribe call
\* never raises one either: it leaves a list for its topic.
C14_OpaqueTopic ==
  /\ \A p \in PublishIds :
       /\ frames[p].reason # "TypeError: handlers is not iterable"
       /\ (frames[p].topic \in InheritedKeys /\ ~NotifyThrows(frames[p].payload))
             => frames[p].pc = "resolved"
  /\ returned.n > 0 =>
       /\ returned.value # "TypeError"
       /\ returned.topic \in DOMAIN subscribers

\* the handlers a publish has invoked, with their positions in the round
Invoked(p) == {<<frames[f].idx, frames[f].h>> : f \in Round(p)}

\* C15 as stated: the payload is inert.  No publish fails because of the
\* shape of its payload, and two settled publishes of one topic over the same
\* registrations, whatever their payloads, have invoked the same handlers in
\* the same order and have settled the same way.
C15_PayloadInert ==
  /\ \A p \in PublishIds : frames[p].reason # "TypeError: payload is nullish"
  /\ \A p \in PublishIds : \A q \in PublishIds :
       ( /\ frames[p].topic = frames[q].topic
         /\ frames[p].pc \in Settled
         /\ frames[q].pc \in Settled )
       => /\ Invoked(p) = Invoked(q)
          /\ frames[p].pc = frames[q].pc

\* the registrations of the end-to-end scenario: Inv (publishing
\* inventory.updated) and Notif (the handler Ok) on order.placed, in either
\* order, and Notif on inventory.updated
Scenario ==
  /\ subscribers["order.placed"] \in {<<"Inv", "Ok">>, <<"Ok", "Inv">>}
  /\ subscribers["inventory.updated"] = <<"Ok">>

\* the event names of the log, in log order
LogEvents == [i \in 1..Len(log) |-> log[i].event]

\* the invocations of handler h
InvocationsOf(h) == {f \in HandlerIds : frames[f].h = h}

\* the only publish made from outside is of order.placed, with an object as
\* payload, on the scenario's registrations, and it has settled
ScenarioDone(p) ==
  /\ Scenario
  /\ TopLevel = {p}
  /\ frames[p].topic = "order.placed"
  /\ frames[p].payload = "withService"
  /\ frames[p].pc \in Settled

\* C16: in the end-to-end scenario the publish resolves with a log of exactly
\* two entries, order.placed first and inventory.updated second, and Notif
\* has been invoked exactly twice, once for each topic.
C16_ScenarioLogAndCounts ==
  \A p \in TopLevel :
    ScenarioDone(p) =>
      /\ frames[p].pc = "resolved"
      /\ LogEvents = <<"order.placed", "inventory.updated">>
      /\ Cardinality(InvocationsOf("Ok")) = 2
      /\ \A t \in {"order.placed", "inventory.updated"} :
           Cardinality({f \in InvocationsOf("Ok") : frames[f].topic = t}) = 1
      /\ Cardinality(InvocationsOf("Inv")) = 1

\* the scenario has run to its end, with Inv registered before Notif
C16_Witness ==
  \E p \in TopLevel :
    ScenarioDone(p) /\ subscribers["order.placed"] = <<"Inv", "Ok">>

\* the scenario with Inv registered before Notif on order.placed
ScenarioInvFirst ==
  /\ subscribers["order.placed"] = <<"Inv", "Ok">>
  /\ subscribers["inventory.updated"] = <<"Ok">>

\* the publishes of inventory.updated made by the Inv invocation of round p
NestedOf(p) ==
  {q \in PublishIds : frames[q].parent \in Round(p)
                        /\ frames[frames[q].parent].h = "Inv"}

\* C17 as stated: when a handler of inventory.updated is dispatched by the
\* publish that Inv made, the invocation of Notif for order.placed has
\* already settled.
C17_NotifSettlesBeforeNestedDispatch ==
  ScenarioInvFirst =>
    \A p \in PublishIds : \A q \in NestedOf(p) :
      Round(q) # {} =>
        \E n \in Round(p) : frames[n].h = "Ok" /\ frames[n].pc \in Settled

\* C17 amended: the order is the reverse.  When Notif is invoked for
\* order.placed, Inv has settled, the publish of inventory.updated that Inv
\* made has settled, and the invocation of Notif for inventory.updated that
\* this publish dispatched has settled.
C17_NestedRoundBeforeNotif ==
  ScenarioInvFirst =>
    \A p \in PublishIds : \A n \in Round(p) :
      (frames[p].topic = "order.placed" /\ frames[n].h = "Ok") =>
        /\ \E i \in Round(p) : frames[i].h = "Inv" /\ frames[i].pc \in Settled
        /\ NestedOf(p) # {}
        /\ \A q \in NestedOf(p) :
             /\ frames[q].pc \in Settled
             /\ \E g \in Round(q) : frames[g].h = "Ok"
             /\ \A g \in Round(q) : frames[g].pc \in Settled

\* Notif has been invoked for order.placed after Inv
C17_Witness ==
  /\ ScenarioInvFirst
  /\ \E p \in TopLevel : \E n \in Round(p) :
       frames[p].topic = "order.placed" /\ frames[n].h = "Ok"

\* the handlers of the cascade of p that were invoked and have not settled
Started(p) == {f \in Cascade(p) \cap HandlerIds : frames[f].pc \notin Settled}

\* C18: single thread of causality.  In the cascade of a top-level publish
\* the handlers that were invoked and have not settled lie on one line of
\* descent; each of them except the innermost is suspended in the await of a
\* publish it issued that has not settled, so at most one handler of the
\* cascade is executing.
C18_SingleThreadPerCascade ==
  \A p \in TopLevel :
    /\ \A f \in Started(p) : \A g \in Started(p) :
         f = g \/ f \in Ancestors(g) \/ g \in Ancestors(f)
    /\ \A f \in Started(p) :
         (\E g \in Started(p) : f \in Ancestors(g)) =>
           /\ frames[f].pc = "await"
           /\ frames[frames[f].child].pc \notin Settled
           /\ ~Runnable(f)
    /\ Cardinality({f \in Started(p) : Runnable(f)}) <= 1

\* one publish from outside; a handler of a nested round is executing while
\* the handler that published the nested topic is suspended
C18_Witness ==
  \E p \in TopLevel :
    /\ TopLevel = {p}
    /\ \E f \in Started(p) : \E g \in Started(p) :
         f \in Ancestors(g) /\ frames[g].pc = "run"

\* the position of an outside caller in the order of the calls
CallerRank(c) == CHOOSE i \in 1..Len(Callers) : Callers[i] = c

\* C19: publishes made from outside without awaiting one another.  Their own
\* entries stand in the log in call order, and the entries of one cascade
\* keep their depth-first order whatever the other cascade appends between
\* them: of two publishes of a cascade the one logged first is an ancestor of
\* the other or had settled when the other was called, and each entry is the
\* entry of its publish.
C19_CascadeOrderUnderInterleaving ==
  /\ \A p \in TopLevel : \A q \in TopLevel :
       CallerRank(frames[p].caller) < CallerRank(frames[q].caller)
         => frames[p].logIdx < frames[q].logIdx
  /\ \A p \in TopLevel : \A a \in Cascade(p) \cap PublishIds :
       /\ frames[a].logIdx <= Len(log)
       /\ EntryOfFrame(a).event = frames[a].topic
       /\ \A b \in Cascade(p) \cap PublishIds :
            frames[a].logIdx < frames[b].logIdx
              => (a \in Ancestors(b) \/ frames[a].pc \in Settled)

\* the log does not keep a cascade contiguous: the entry of the second
\* outside publish lies between two entries of the cascade of the first
C19_Witness ==
  \E p \in TopLevel : \E q \in TopLevel : \E n \in Cascade(p) \cap PublishIds :
    /\ frames[p].caller = "first"
    /\ frames[q].caller = "second"
    /\ frames[p].logIdx < frames[q].logIdx
    /\ frames[q].logIdx < frames[n].logIdx

\* the handlers whose promise never settles and that were invoked
Stalled == {f \in HandlerIds : frames[f].pc = "pending"}

\* what a never-settling handler f holds up: the publish that invoked it
\* stays in the await of f, invokes no handler registered after f, and
\* neither it nor any publish or handler enclosing it settles; none of them
\* has a timer set that could release it
HeldUpBy(f) ==
  LET p == frames[f].parent
  IN /\ frames[p].pc = "await"
     /\ frames[p].child = f
     /\ \A g \in Round(p) : frames[g].idx <= frames[f].idx
     /\ \A a \in Ancestors(f) : frames[a].pc \notin Settled
     /\ \A a \in Ancestors(f) \cup {f} : a \notin Delayed

\* C20: stall on a never-settling handler.  In every reachable state each
\* invoked handler that never settles holds up its round and every enclosing
\* publish, and no step of the bus takes it out of that state.
C20_StallOnPendingHandler ==
  /\ [](\A f \in Stalled : HeldUpBy(f))
  /\ [][\A f \in Stalled : f \in Stalled']_vars

\* a handler that never settles was invoked by a nested publish ahead of a
\* later handler of its topic, and nothing is left to run
C20_Witness ==
  \E f \in Stalled :
    /\ frames[f].idx < Len(HandlersOf(frames[f].topic))
    /\ frames[frames[f].parent].parent # 0
    /\ Quiescent
    /\ timers = <<>>

\* ======== several ServiceBus instances ========
\* mutant: the fields live in one place shared by all instances
Store_shared(b) == "busA"

\* constructor: this._subscribers = {}; this._log = [] are fields of the
\* instance under construction
Store(b) == b

\* the handlers publish looks up on instance b
BusHandlersOf(b, topic) == busSubscribers[Store(b)][topic]

\* b.subscribe(topic, h), before anything is published
BusSubscribe(b, topic, h) ==
  /\ Len(busTrace) < MaxSubs
  /\ busRounds = <<>>
  /\ busSubscribers' = [busSubscribers EXCEPT ![Store(b)][topic] = Pushed(@, h)]
  /\ busTrace' = Append(busTrace, [op |-> "subscribe", bus |-> b,
                                   topic |-> topic, h |-> h])
  /\ UNCHANGED <<busLog, busRounds, busVars, callCap, viewVars, demoVars,
                 coffeeVars>>

\* how the synchronous part of b.publish(topic, payload) leaves the call
BusCallOutcome(b, topic, payload) ==
  IF NotifyThrows(payload) THEN "rejected"
  ELSE IF Len(BusHandlersOf(b, topic)) > 0 THEN "delay"
  ELSE "resolved"

\* b.publish(topic, payload) up to its first await; notifyBusLog and the
\* timers are those of the page, whichever instance publishes
BusPublish(b, topic, payload) ==
  /\ Len(busRounds) < callCap
  /\ busLog' = [busLog EXCEPT ![Store(b)] = PushLog(@, Entry(topic, payload))]
  /\ display' = NotifyBusLog(Entry(topic, payload))
  /\ busRounds' = Append(busRounds,
                         [bus |-> b, topic |-> topic, idx |-> 1,
                          pc |-> BusCallOutcome(b, topic, payload)])
  /\ timers' = IF BusCallOutcome(b, topic, payload) = "delay"
               THEN Append(timers, Timer(Len(busRounds) + 1)) ELSE timers
  /\ busTrace' = Append(busTrace, [op |-> "publish", bus |-> b,
                                   topic |-> topic, h |-> NoHandler])
  /\ UNCHANGED <<busSubscribers, subscribers, log, logElPresent, frames,
                 effects, clock, calls, returned, callCap, viewVars, demoVars,
                 coffeeVars>>

\* the timer of a round fires: its next handler is called, runs to its end
\* (these handlers publish nothing) and the loop goes on or ends
BusTimerFires ==
  /\ timers # <<>>
  /\ clock' = Head(timers).due
  /\ LET i == Head(timers).frame
         r == busRounds[i]
         h == BusHandlersOf(r.bus, r.topic)[r.idx]
     IN /\ busTrace' = Append(busTrace, [op |-> "handler", bus |-> r.bus,
                                         topic |-> r.topic, h |-> h])
        /\ IF HandlerDefs[h].throws
           THEN /\ busRounds' = [busRounds EXCEPT ![i].pc = "rejected"]
                /\ timers' = Tail(timers)
           ELSE IF r.idx < Len(BusHandlersOf(r.bus, r.topic))
           THEN /\ busRounds' = [busRounds EXCEPT ![i].idx = NextIdx(r.idx)]
                /\ timers' = Append(Tail(timers),
                                    [frame |-> i,
                                     due |-> Head(timers).due + DelayMs])
           ELSE /\ busRounds' = [busRounds EXCEPT ![i].pc = "resolved"]
                /\ timers' = Tail(timers)
  /\ UNCHANGED <<busSubscribers, busLog, subscribers, log, display,
                 logElPresent, frames, effects, calls, returned, callCap,
                 viewVars, demoVars, coffeeVars>>

NextBuses ==
  \/ \E b \in Buses, t \in FleetTopics, h \in FleetHandlers : BusSubscribe(b, t, h)
  \/ \E b \in Buses, t \in FleetTopics : BusPublish(b, t, NestedPayload)
  \/ BusTimerFires

SpecBuses == Init /\ [][NextBuses]_vars

\* the calls of kind op made on instance b for topic t, in order
CallsOn(op, b, t) ==
  SelectSeq(busTrace, LAMBDA e : e.op = op /\ e.bus = b /\ e.topic = t)

\* the publish calls made on instance b, in order
PublishedOn(b) == SelectSeq(busTrace, LAMBDA e : e.op = "publish" /\ e.bus = b)

\* C21: bus instances are independent.  The log of an instance holds the
\* entries of the publish calls made on that instance and of no other, its
\* handler list for a topic holds the handlers subscribed on that instance
\* and no other, and every handler call made for a publish on an instance is
\* a call of a handler subscribed earlier on that same instance.
C21_InstancesIndependent ==
  /\ \A b \in Buses :
       /\ Len(busLog[b]) = Len(PublishedOn(b))
       /\ \A i \in 1..Len(busLog[b]) : busLog[b][i].event = PublishedOn(b)[i].topic
       /\ \A t \in FleetTopics :
            /\ Len(busSubscribers[b][t]) = Len(CallsOn("subscribe", b, t))
            /\ \A i \in 1..Len(busSubscribers[b][t]) :
                 busSubscribers[b][t][i] = CallsOn("subscribe", b, t)[i].h
  /\ \A i \in 1..Len(busTrace) :
       busTrace[i].op = "handler" =>
         \E j \in 1..(i - 1) :
           busTrace[j] = [busTrace[i] EXCEPT !.op = "subscribe"]

\* both instances have published and called a handler, and neither handler
\* is subscribed on the other instance
C21_Witness ==
  /\ \E i \in 1..Len(busTrace) :
       busTrace[i] = [op |-> "handler", bus |-> "busA",
                      topic |-> "order.placed", h |-> "Ok"]
  /\ \E i \in 1..Len(busTrace) :
       busTrace[i] = [op |-> "handler", bus |-> "busB",
                      topic |-> "order.placed", h |-> "Fail"]
  /\ busSubscribers["busA"]["order.placed"] = <<"Ok">>
  /\ busSubscribers["busB"]["order.placed"] = <<"Fail">>

\* ======== an observer of the log ========
\* getLog() { return this._log; }: the observer receives the array itself
GetLog ==
  /\ Quiescent
  /\ logRef = "none"
  /\ logRef' = "log"
  /\ UNCHANGED <<busVars, callCap, demoVars, fleetVars, coffeeVars>>

\* an entry the observer makes up
Forged == [event |-> "forged", payload |-> "withService", timestamp |-> clock]

\* what the observer can do to the array it holds: push, pop, overwrite an
\* element, or truncate it
WrittenBy(op, l) ==
  CASE op = "push" -> Append(l, Forged)
    [] op = "pop" -> SubSeq(l, 1, Len(l) - 1)
    [] op = "set" -> [l EXCEPT ![1] = Forged]
    [] op = "clear" -> <<>>

\* the observer writes through the reference between two jobs of the bus;
\* the array it holds is this._log
ObserverWrites(op) ==
  /\ Quiescent
  /\ logRef = "log"
  /\ log # <<>>
  /\ Len(log) < callCap
  /\ log' = WrittenBy(op, log)
  /\ UNCHANGED <<subscribers, display, logElPresent, frames, timers, effects,
                 clock, calls, returned, notBus>>

\* the subscribe calls explored next to an observer
WiringView == {"order.placed"} \X {"Ok", "Inv"}

NextView ==
  \/ \E w \in WiringView : Subscribe(w[1], w[2])
  \/ Publish("order.placed", NestedPayload)
  \/ TimerFires
  \/ \E f \in FrameIds : HandlerRuns(f)
  \/ \E f \in FrameIds : HandlerResumes(f)
  \/ \E p \in FrameIds : PublishResumes(p)
  \/ GetLog
  \/ \E op \in {"push", "pop", "set", "clear"} : ObserverWrites(op)

SpecView == Init /\ [][NextView]_vars

\* C22 as stated: the value getLog returns is a read-only snapshot.  Only a
\* publish call changes the log of the bus, and it only appends one entry;
\* no other step, whatever an observer does with the value it was given,
\* adds, removes or changes an entry.
C22_LogViewReadOnly ==
  [][ IF calls' = calls
      THEN log' = log
      ELSE Len(log') = Len(log) + 1 /\ SubSeq(log', 1, Len(log)) = log ]_vars

\* ======== the demo page: the four services and the order button ========
DemoTopics ==
  {"order.placed", "inventory.updated", "loyalty.updated", "notification.sent"}

\* the subscribe calls of the constructors of InventoryService,
\* LoyaltyService and NotificationService, in the order of instantiation;
\* Inv is the handler of InventoryService
DemoSubscribers ==
  [t \in DemoTopics |->
     CASE t = "order.placed" -> <<"Inv", "Loyalty", "NotifEmail">>
       [] t = "loyalty.updated" -> <<"NotifPush">>
       [] OTHER -> <<>>]

\* one more subscriber that another script of the page may have added after
\* the services, or none
NoExtra == <<NoTopic, NoHandler>>
ExtraWiring ==
  {NoExtra} \cup ({"inventory.updated", "notification.sent"} \X {"Ok", "Fail"})

WithExtra(x) ==
  IF x = NoExtra THEN DemoSubscribers
  ELSE [DemoSubscribers EXCEPT ![x[1]] = Pushed(@, x[2])]

\* the publish calls one order causes with these subscribers
PublishesPerOrder == 5
DemoCalls == MaxOrders * PublishesPerOrder

InitDemo ==
  /\ \E x \in ExtraWiring : subscribers = WithExtra(x)
  /\ log = <<>>
  /\ display = <<>>
  /\ logElPresent \in BOOLEAN
  /\ frames = <<>>
  /\ timers = <<>>
  /\ effects = <<>>
  /\ clock = 0
  /\ calls = 0
  /\ returned = NoReturn
  /\ callCap = DemoCalls
  /\ ViewInit /\ DemoInit /\ FleetInit /\ CoffeeInit

\* if (logEl) logEl.innerHTML = '' followed by the notifyBusLog of the
\* publish of order.placed, whose payload carries service: 'OrderService'
NotifyAfterClear(entry) ==
  IF ~logElPresent THEN display
  ELSE Prepend(<<>>, [event |-> entry.event,
                      svc |-> ServiceOf(entry.payload),
                      time |-> entry.timestamp])

\* mutant: the button is left enabled while the order is processed
Disabled_notSet == FALSE

\* btn.disabled = true
Disabled == TRUE

\* a click on the enabled button: placeDemoOrder up to its first await, with
\* orderService.placeOrder and the synchronous part of bus.publish
Click(n) ==
  /\ Quiescent
  /\ ~btnDisabled
  /\ demo.orders < MaxOrders
  /\ calls < callCap
  /\ btnDisabled' = Disabled
  /\ demo' = [pc |-> "placing", items |-> n, orders |-> demo.orders + 1,
              due |-> 0, call |-> Len(frames) + 1]
  /\ calls' = calls + 1
  /\ log' = PushLog(log, Entry("order.placed", NestedPayload))
  /\ display' = NotifyAfterClear(Entry("order.placed", NestedPayload))
  /\ frames' = Append(frames,
                      PublishFrame("button", 0, "order.placed", NestedPayload))
  /\ timers' = IF CallOutcome("order.placed", NestedPayload) = "delay"
               THEN Append(timers, Timer(Len(frames) + 1)) ELSE timers
  /\ UNCHANGED <<subscribers, logElPresent, effects, clock, returned, callCap,
                 viewVars, fleetVars, coffeeVars>>

\* the publish of order.placed has settled: placeOrder and then
\* placeDemoOrder resume; a rejection leaves placeDemoOrder, a success takes
\* it to await delay(items.length * 400 + 1200)
DemoPlaced ==
  /\ demo.pc = "placing"
  /\ frames[demo.call].pc \in Settled
  /\ demo' = IF frames[demo.call].pc = "rejected"
             THEN [demo EXCEPT !.pc = "failed"]
             ELSE [demo EXCEPT !.pc = "waiting",
                               !.due = clock + demo.items * DelayMs + SettleMs]
  /\ UNCHANGED <<busVars, btnDisabled, callCap, viewVars, fleetVars, coffeeVars>>

\* mutant: the button is not enabled again
Enabled_never == TRUE

\* btn.disabled = false
Enabled == FALSE

\* the timer of that delay fires: updateServicePanels, then the button is
\* enabled again
DemoWaitEnds ==
  /\ demo.pc = "waiting"
  /\ Quiescent
  /\ timers = <<>>
  /\ clock' = demo.due
  /\ btnDisabled' = Enabled
  /\ demo' = [demo EXCEPT !.pc = "idle"]
  /\ UNCHANGED <<subscribers, log, display, logElPresent, frames, timers,
                 effects, calls, returned, callCap, viewVars, fleetVars,
                 coffeeVars>>

NextDemo ==
  \/ \E n \in 1..2 : Click(n)
  \/ TimerFires
  \/ \E f \in FrameIds : HandlerRuns(f)
  \/ \E f \in FrameIds : HandlerResumes(f)
  \/ \E p \in FrameIds : PublishResumes(p)
  \/ DemoPlaced
  \/ DemoWaitEnds

SpecDemo == InitDemo /\ [][NextDemo]_vars

\* the handler whose publish call appended log entry i, if a handler did
PublisherOf(i) ==
  LET p == CHOOSE q \in PublishIds : frames[q].logIdx = i
  IN IF frames[p].parent = 0 THEN NoHandler ELSE frames[frames[p].parent].h

\* NotificationService._sent: one message per run of one of its handlers
Sent == SelectSeq(effects, LAMBDA e : e.h \in {"NotifEmail", "NotifPush"})

\* the last n elements of a sequence
LastOf(l, n) == SubSeq(l, Len(l) - n + 1, Len(l))

\* C23: demo topology order.  With the subscribers of the three services
\* and no other, the publish of order.placed of an order resolves after
\* having appended exactly five entries, order.placed, inventory.updated,
\* loyalty.updated, notification.sent published by the loyalty.updated
\* handler (push) and notification.sent published by the order.placed
\* handler (email), and NotificationService has recorded its two messages in
\* that order, push before email.
C23_DemoTopologyOrder ==
  (subscribers = DemoSubscribers /\ demo.pc \in {"waiting", "idle"}
     /\ demo.orders > 0) =>
    LET first == frames[demo.call].logIdx IN
      /\ frames[demo.call].pc = "resolved"
      /\ Len(log) = first + 4
      /\ first = PublishesPerOrder * (demo.orders - 1) + 1
      /\ [i \in 1..5 |-> log[first + i - 1].event]
           = <<"order.placed", "inventory.updated", "loyalty.updated",
               "notification.sent", "notification.sent">>
      /\ [i \in 1..5 |-> PublisherOf(first + i - 1)]
           = <<NoHandler, "Inv", "Loyalty", "NotifPush", "NotifEmail">>
      /\ Len(Sent) = 2 * demo.orders
      /\ [i \in 1..2 |-> LastOf(Sent, 2)[i].h] = <<"NotifPush", "NotifEmail">>

\* the first order on the quiet bus has been processed to its end
C23_Witness ==
  /\ subscribers = DemoSubscribers
  /\ demo.orders = 1
  /\ demo.pc = "idle"
  /\ Len(log) = 5

\* ======== subscribe calls made while a round is in progress ========
\* another caller subscribes between two jobs of the bus, after the first
\* publish call: the same method as Subscribe, at a later time
SubscribeLate(topic, h) ==
  /\ Quiescent
  /\ calls > 0
  /\ Registered < MaxSubs
  /\ subscribers' = IF SubscribeThrows(topic) THEN subscribers
                    ELSE [subscribers EXCEPT ![topic] = Pushed(@, h)]
  /\ returned' = [n |-> returned.n + 1, topic |-> topic, h |-> h,
                  value |-> SubscribeReturns(topic)]
  /\ UNCHANGED <<log, display, logElPresent, frames, timers, effects, clock,
                 calls, notBus>>

\* the subscribe calls explored around a round in progress
WiringLate ==
  ({"order.placed"} \X {"Ok", "Inv"}) \cup ({"inventory.updated"} \X {"Ok"})

NextLate ==
  \/ \E w \in WiringLate : Subscribe(w[1], w[2])
  \/ \E w \in WiringLate : SubscribeLate(w[1], w[2])
  \/ \E t \in Topics \ InheritedKeys : Publish(t, NestedPayload)
  \/ TimerFires
  \/ \E f \in FrameIds : HandlerRuns(f)
  \/ \E f \in FrameIds : HandlerResumes(f)
  \/ \E p \in FrameIds : PublishResumes(p)

SpecLate == Init /\ [][NextLate]_vars

\* C24 as stated: a dispatch round uses the handlers registered when publish
\* was called.  Every handler a publish invokes held a place in the list of
\* the topic at the time of the call.
C24_RoundUsesHandlersAtCall ==
  \A p \in PublishIds : \A f \in Round(p) : frames[f].idx <= frames[p].atCall

\* ---- the event loop: a ready continuation and a due timer do run ----
BusStep ==
  \/ TimerFires
  \/ \E f \in FrameIds : HandlerRuns(f)
  \/ \E f \in FrameIds : HandlerResumes(f)
  \/ \E p \in FrameIds : PublishResumes(p)

DemoStep == DemoPlaced \/ DemoWaitEnds

\* the demo page under an event loop that keeps running; nothing obliges
\* the user to click
SpecDemoFair ==
  InitDemo /\ [][NextDemo]_vars /\ WF_vars(BusStep) /\ WF_vars(DemoStep)

\* the activations an exploration of the demo can create: a publish call
\* invokes at most one handler per call it causes
DemoFrames == 1..(2 * DemoCalls)

\* C25: termination of a well-behaved cascade.  With the demo's acyclic
\* wiring, whose handlers all settle, every publish call that is made
\* settles in the end, and the cascade of an order appends at most five
\* entries.
C25_CascadeTerminates ==
  /\ [](Len(log) <= PublishesPerOrder * demo.orders)
  /\ \A i \in DemoFrames :
       [](i \in PublishIds => <>(i \in PublishIds /\ frames[i].pc \in Settled))

\* an order's cascade has made its five publish calls and all have settled
C25_Witness ==
  /\ calls = PublishesPerOrder
  /\ \A p \in PublishIds : frames[p].pc \in Settled
  /\ \E p \in PublishIds : frames[p].parent # 0 /\ Round(p) # {}

\* ======== handlers that publish back into a topic being dispatched ========
\* the subscribe calls explored: Back publishes order.placed, so it closes
\* a cycle on order.placed directly, or through Inv on inventory.updated
WiringCycle ==
  ({"order.placed"} \X {"Back", "Inv", "Ok", "Fail"})
    \cup ({"inventory.updated"} \X {"Back", "Ok"})

NextCycle ==
  \/ \E w \in WiringCycle : Subscribe(w[1], w[2])
  \/ \E t \in Topics, pl \in Payloads : Publish(t, pl)
  \/ TimerFires
  \/ \E f \in FrameIds : HandlerRuns(f)
  \/ \E f \in FrameIds : HandlerResumes(f)
  \/ \E p \in FrameIds : PublishResumes(p)

SpecCycle == Init /\ [][NextCycle]_vars

\* the publishes of the topic of p made from inside the cascade of p
Laps(p) ==
  {q \in Cascade(p) \cap PublishIds : q # p /\ frames[q].topic = frames[p].topic}

\* C26: no cycle detection.  Once a handler chain started by a publish of a
\* topic has published that topic again, the bus dispatches the new publish
\* like any other: it appends its entry and starts its round.  Neither the
\* first publish, nor the new one, nor any handler or publish between them
\* ever settles, and the log holds one more entry for every lap.
C26_NoCycleDetection ==
  \A p \in PublishIds :
    Laps(p) # {} =>
      /\ frames[p].pc \notin Settled
      /\ Len(log) >= Cardinality(Laps(p)) + 1
      /\ \A q \in Laps(p) :
           /\ frames[q].pc \notin Settled
           /\ frames[q].reason = NoError
           /\ frames[q].live
           /\ frames[q].logIdx <= Len(log)
           /\ EntryOfFrame(q).event = frames[q].topic
           /\ \A a \in Ancestors(q) : frames[a].pc \notin Settled

\* a publish from outside has gone round the cycle twice
C26_Witness ==
  \E p \in TopLevel : Cardinality(Laps(p)) >= 2

\* the pauses the round of publish p has taken to their end
PausesTaken(p) ==
  IF p \in Delayed THEN frames[p].idx - 1 ELSE frames[p].idx

\* C27: every handler invocation is preceded by its own latency pause.  A
\* handler is called only by the step in which the timer of its round fires,
\* never by the step that makes the publish call, and not before the pauses
\* of all handlers up to it have elapsed since the call; in every state the
\* pauses a round has taken are as many as the handlers it has invoked, and
\* a publish with no handlers takes no pause.
C27_PauseBeforeEachHandler ==
  /\ [][ (Len(frames') > Len(frames) /\ frames'[Len(frames')].kind = "handler")
           => LET f == frames'[Len(frames')] IN
                /\ timers # <<>>
                /\ Head(timers).frame = f.parent
                /\ timers' = Tail(timers)
                /\ calls' = calls
                /\ clock' = Head(timers).due
                /\ clock' >= log[f.logIdx].timestamp + f.idx * DelayMs ]_vars
  /\ [](\A p \in PublishIds :
          /\ Cardinality(Round(p)) = PausesTaken(p)
          /\ (p \in Delayed) = (frames[p].pc = "delay")
          /\ frames[p].atCall = 0 =>
               (p \notin Delayed /\ Round(p) = {} /\ frames[p].pc \in Settled))

\* a round has paused twice and invoked two handlers
C27_Witness ==
  \E p \in PublishIds :
    /\ frames[p].pc = "resolved"
    /\ PausesTaken(p) = 2
    /\ Cardinality(Round(p)) = 2
    /\ clock >= 2 * DelayMs

\* ---------------------------------------------------------------------
\* C28: the displayed log is a bounded view of the bus log.  No action of
\* Spec clears the display, so the entries published since it was last
\* cleared are the whole log: wherever the display element exists it
\* holds at most DisplayCap items, newest first, one for each of the
\* most recent entries of the log.
C28_DisplayIsBoundedTail ==
  logElPresent =>
    /\ Len(display) <= DisplayCap
    /\ Len(display) = (IF Len(log) > DisplayCap THEN DisplayCap ELSE Len(log))
    /\ \A i \in 1..Len(display) :
         /\ display[i].event = log[Len(log) + 1 - i].event
         /\ display[i].time = log[Len(log) + 1 - i].timestamp

\* ---------------------------------------------------------------------
\* the demo cascades in flight: the top-level publishes, all issued by the
\* button, that have not settled
InFlight == {p \in TopLevel : frames[p].pc \notin Settled}

\* C29: demo orders are serialized by the button.  The step that publishes
\* order.placed leaves the button disabled; the button is enabled only
\* while placeDemoOrder is not running, and then every publish and handler
\* has settled and no timer is pending; the step that enables it is the end
\* of the wait that follows a resolved cascade; so at most one demo cascade
\* is in flight.  Once the cascade of an order has failed the button stays
\* disabled and no further order is placed.
C29_ButtonSerializesOrders ==
  /\ [][calls' > calls /\ frames'[Len(frames')].parent = 0
          => ~btnDisabled /\ btnDisabled']_vars
  /\ [](~btnDisabled =>
          /\ demo.pc = "idle"
          /\ timers = <<>>
          /\ \A f \in FrameIds : frames[f].pc \in Settled)
  /\ [](Cardinality(InFlight) <= 1)
  /\ [][btnDisabled /\ ~btnDisabled' =>
          /\ demo.pc = "waiting"
          /\ frames[demo.call].pc = "resolved"
          /\ clock' >= log[frames[demo.call].logIdx].timestamp
                         + demo.items * DelayMs + SettleMs]_vars
  /\ [][demo.pc = "failed" =>
          btnDisabled' /\ demo' = demo /\ calls' = calls]_vars

\* the second order is being processed after the first was processed to
\* its end
C29_Witness ==
  /\ demo.orders = 2
  /\ btnDisabled
  /\ InFlight = {demo.call}
  /\ \E p \in TopLevel : p # demo.call /\ frames[p].pc = "resolved"

\* ---------------------------------------------------------------------
\* The coffee customizer (src/unnamed/part_000)
\*
\* ---- the doubles that prices are ----
\* A price is a double x with 0.25 <= x < 16.  It is held as the record
\* [c, k] of two integers with x = (c * 2^54 + k) / (100 * 2^54): c is a
\* number of cents and k the distance of x from c cents in units of
\* 1 / (100 * 2^54), so that the 53-bit rounding of every + is computed
\* with small integers.

RECURSIVE TwoPow(_, _)
\* 2^n modulo m
TwoPow(n, m) == IF n = 0 THEN 1 % m ELSE (2 * TwoPow(n - 1, m)) % m

\* c cents and k units are at least b cents
AtLeast(c, k, b) == c > b \/ (c = b /\ k >= 0)

\* the spacing of the doubles around a value, in units of 2^-54: 2^-54 in
\* [0.25, 0.5), doubling with every binade up to 2^-49 in [8, 16)
Ulp(c, k) ==
  IF AtLeast(c, k, 800) THEN 32
  ELSE IF AtLeast(c, k, 400) THEN 16
  ELSE IF AtLeast(c, k, 200) THEN 8
  ELSE IF AtLeast(c, k, 100) THEN 4
  ELSE IF AtLeast(c, k, 50) THEN 2
  ELSE 1

\* 2^54 modulo 200 spacings, for each spacing
Residue == [u \in {1, 2, 4, 8, 16, 32} |-> TwoPow(54, 200 * u)]

\* the double nearest to the exact value, ties to the even significand
RoundToDouble(c, k) ==
  LET m == 100 * Ulp(c, k)
      r == (c * Residue[Ulp(c, k)] + k) % (2 * m)
      lo == r % m
      down == [c |-> c, k |-> k - lo]
      up == [c |-> c, k |-> k + m - lo]
  IN IF 2 * lo < m THEN down
     ELSE IF 2 * lo > m THEN up
     ELSE IF r < m THEN down ELSE up

\* the value of a decimal literal such as 0.65, given in cents
Literal(cents) == RoundToDouble(cents, 0)

\* x + y of two numbers
Plus(x, y) == RoundToDouble(x.c + y.c, x.k + y.k)

\* x.toFixed(2), in cents: the n for which n / 100 is closest to x; the
\* roundings of a few additions leave x within a millionth of a cent of c
ToFixed2(x) == x.c

\* ---- the tables ----
DecoratorKeys ==
  {"oat-milk", "almond-milk", "extra-shot", "brown-sugar-syrup",
   "vanilla-syrup", "cinnamon", "iced", "decaf"}

\* DECORATORS: key -> Class and price (in cents)
DECORATORS ==
  [key \in DecoratorKeys |->
     CASE key = "oat-milk" -> [Class |-> "OatMilkDecorator", price |-> 75]
       [] key = "almond-milk" -> [Class |-> "AlmondMilkDecorator", price |-> 65]
       [] key = "extra-shot" -> [Class |-> "ExtraShotDecorator", price |-> 75]
       [] key = "brown-sugar-syrup" ->
            [Class |-> "BrownSugarSyrupDecorator", price |-> 60]
       [] key = "vanilla-syrup" -> [Class |-> "VanillaSyrupDecorator", price |-> 50]
       [] key = "cinnamon" -> [Class |-> "CinnamonDecorator", price |-> 25]
       [] key = "iced" -> [Class |-> "IceDecorator", price |-> 30]
       [] key = "decaf" -> [Class |-> "DecafDecorator", price |-> 40]]

\* mutant: every decorator class adds what AlmondMilkDecorator adds
Increment_ofAlmondMilk(class) == 65

\* the literal that getPrice of a decorator class adds, in cents
Increment(class) ==
  CASE class = "OatMilkDecorator" -> 75
    [] class = "AlmondMilkDecorator" -> 65
    [] class = "ExtraShotDecorator" -> 75
    [] class = "BrownSugarSyrupDecorator" -> 60
    [] class = "VanillaSyrupDecorator" -> 50
    [] class = "CinnamonDecorator" -> 25
    [] class = "IceDecorator" -> 30
    [] class = "DecafDecorator" -> 40

\* ---- the Set activeDecorators, in insertion order ----
SetHas(s, key) == \E i \in 1..Len(s) : s[i] = key
SetDelete(s, key) == SelectSeq(s, LAMBDA e : e # key)
SetAdd(s, key) == IF SetHas(s, key) THEN s ELSE Append(s, key)

\* ---- buildCoffee ----
\* a new Coffee with the _price of the selected base, wrapped in one
\* decorator object per active key, in the order of activeDecorators.forEach
BuildCoffee(base, active) ==
  [_price |-> baseCoffees[base],
   wraps |-> [i \in 1..Len(active) |-> DECORATORS[active[i]].Class]]

RECURSIVE GetPrice(_)
\* getPrice of the outermost object: this._coffee.getPrice() + literal
GetPrice(coffee) ==
  IF coffee.wraps = <<>> THEN Literal(coffee._price)
  ELSE LET n == Len(coffee.wraps) IN
       Plus(GetPrice([coffee EXCEPT !.wraps = SubSeq(@, 1, n - 1)]),
            Literal(Increment(coffee.wraps[n])))

\* buildCoffee().getPrice() with the selected base
PriceWith(active) == GetPrice(BuildCoffee(selectedBase, active))
Price == PriceWith(activeDecorators)

\* ---- the operations ----
selectBase(key) ==
  /\ selectedBase' = key
  /\ lastToggle' = NoToggle
  /\ UNCHANGED <<activeDecorators, baseCoffees>>
  /\ UNCHANGED <<busVars, callCap, viewVars, demoVars, fleetVars>>

toggleDecorator(key) ==
  /\ SetHas(activeDecorators, key) \/ Len(activeDecorators) < MaxActive
  /\ activeDecorators' = IF SetHas(activeDecorators, key)
                         THEN SetDelete(activeDecorators, key)
                         ELSE SetAdd(activeDecorators, key)
  /\ lastToggle' = [key |-> key, before |-> activeDecorators,
                    twice |-> lastToggle.key = key,
                    start |-> IF lastToggle.key = key
                              THEN lastToggle.before ELSE <<>>]
  /\ UNCHANGED <<selectedBase, baseCoffees>>
  /\ UNCHANGED <<busVars, callCap, viewVars, demoVars, fleetVars>>

resetCustomizer ==
  /\ activeDecorators' = <<>>
  /\ lastToggle' = NoToggle
  /\ UNCHANGED <<selectedBase, baseCoffees>>
  /\ UNCHANGED <<busVars, callCap, viewVars, demoVars, fleetVars>>

\* the page with its services wired and no order placed
InitCoffee ==
  /\ subscribers = DemoSubscribers
  /\ log = <<>>
  /\ display = <<>>
  /\ logElPresent = TRUE
  /\ frames = <<>>
  /\ timers = <<>>
  /\ effects = <<>>
  /\ clock = 0
  /\ calls = 0
  /\ returned = NoReturn
  /\ callCap = MaxCalls
  /\ ViewInit /\ DemoInit /\ FleetInit /\ CoffeeInit

NextCoffee ==
  \/ \E key \in DOMAIN BASE_COFFEES : selectBase(key)
  \/ \E key \in DecoratorKeys : toggleDecorator(key)
  \/ resetCustomizer

SpecCoffee == InitCoffee /\ [][NextCoffee]_vars

\* ---- what the claim compares the price with ----
Distinct(s) == \A i, j \in 1..Len(s) : i # j => s[i] # s[j]
Keys(s) == {s[i] : i \in 1..Len(s)}

RECURSIVE ListedSum(_, _)
\* x + the listed prices of the keys, added one by one in their order
ListedSum(x, keys) ==
  IF keys = <<>> THEN x
  ELSE ListedSum(Plus(x, Literal(DECORATORS[Head(keys)].price)), Tail(keys))

RECURSIVE ListedCents(_)
\* the listed prices of a set of keys, in cents
ListedCents(S) ==
  IF S = {} THEN 0
  ELSE LET key == CHOOSE e \in S : TRUE
       IN DECORATORS[key].price + ListedCents(S \ {key})

\* the composition part of C30: the active keys are distinct keys of
\* DECORATORS, the price is the base price plus their listed prices in
\* activation order, and the base coffees are as they were constructed
Composition ==
  /\ Distinct(activeDecorators)
  /\ Keys(activeDecorators) \subseteq DecoratorKeys
  /\ Len(activeDecorators) <= MaxActive
  /\ Price = ListedSum(Literal(BASE_COFFEES[selectedBase]), activeDecorators)
  /\ baseCoffees = BASE_COFFEES

\* C30 as stated: decorator price composition, and after two successive
\* toggles of the same decorator buildCoffee().getPrice() is the number it
\* was before the first of them.
C30_DecoratorPriceComposition ==
  /\ Composition
  /\ lastToggle.twice => Price = PriceWith(lastToggle.start)

\* C30 amended: decorator price composition; to the cent, as toFixed(2)
\* shows it, the price is the base price plus the listed prices of the
\* active keys; after two successive toggles of the same decorator the
\* active keys and the price shown are what they were before the first,
\* and getPrice() is the same number when the decorator was inactive
\* before the first toggle.
C30_PriceRestoredAsShown ==
  /\ Composition
  /\ ToFixed2(Price)
       = BASE_COFFEES[selectedBase] + ListedCents(Keys(activeDecorators))
  /\ lastToggle.twice =>
       /\ Keys(activeDecorators) = Keys(lastToggle.start)
       /\ ToFixed2(Price) = ToFixed2(PriceWith(lastToggle.start))
       /\ ~SetHas(lastToggle.start, lastToggle.key) =>
            (activeDecorators = lastToggle.start
               /\ Price = PriceWith(lastToggle.start))

\* an active decorator was toggled off and on again: it is now the last to
\* be applied and getPrice() differs from what it was, in the last bit
C30_Witness ==
  /\ lastToggle.twice
  /\ SetHas(lastToggle.start, lastToggle.key)
  /\ Price # PriceWith(lastToggle.start)
  /\ ToFixed2(Price) = ToFixed2(PriceWith(lastToggle.start))

====
